---------------------------- MODULE Spec2Model ----------------------------
(***************************************************************************)
(* A model of dirhash (src/src/main.rs): the checkfile codec               *)
(* (parse_check_line, unescape, hex_half_byte, check_for_invalid_          *)
(* characters, filepath_to_string), the input strategies (Input::open,     *)
(* Input::hash, copy_wide, maybe_memmap_file), the manifest reconciliation *)
(* (hash_verify) and the hash / check runs of main.                        *)
(*                                                                         *)
(* Text is a sequence of characters.  A character is written as a one      *)
(* letter string, except the characters that have no readable literal:     *)
(* BSL (backslash), NL (newline), NUL (U+0000), FFFD (U+FFFD), SP (space). *)
(***************************************************************************)
EXTENDS Integers, Sequences, FiniteSets, TLC

BSL  == "BSL"
NL   == "NL"
NUL  == "NUL"
FFFD == "FFFD"
SP   == " "

\* The Unicode scalar value of a character.
CharCode(c) ==
    CASE c = "0" -> 48  [] c = "1" -> 49  [] c = "2" -> 50  [] c = "3" -> 51
      [] c = "4" -> 52  [] c = "5" -> 53  [] c = "6" -> 54  [] c = "7" -> 55
      [] c = "8" -> 56  [] c = "9" -> 57
      [] c = "a" -> 97  [] c = "b" -> 98  [] c = "c" -> 99  [] c = "d" -> 100
      [] c = "e" -> 101 [] c = "f" -> 102 [] c = "g" -> 103
      [] c = "A" -> 65  [] c = "F" -> 70
      [] c = "n" -> 110 [] c = "x" -> 120 [] c = "y" -> 121
      [] c = ":" -> 58  [] c = "-" -> 45  [] c = "/" -> 47
      [] c = SP  -> 32  [] c = BSL -> 92  [] c = NL  -> 10  [] c = NUL -> 0
      [] c = FFFD -> 65533

\* char::is_ascii
IsAscii(c) == CharCode(c) < 128

\* The number of bytes of a character in UTF-8; str::len counts bytes.
Utf8Len(c) ==
    IF CharCode(c) < 128 THEN 1
    ELSE IF CharCode(c) < 2048 THEN 2
    ELSE IF CharCode(c) < 65536 THEN 3 ELSE 4

RECURSIVE StrLen(_)
StrLen(s) == IF s = <<>> THEN 0 ELSE Utf8Len(Head(s)) + StrLen(Tail(s))

Contains(s, c) == \E i \in 1..Len(s) : s[i] = c

Min(a, b) == IF a < b THEN a ELSE b

\* Result values: Ok(v), Err(e), and a panic, which unwinds out of main.
Ok(v)    == [kind |-> "Ok", val |-> v]
Err(m)   == [kind |-> "Err", msg |-> m]
Panic(m) == [kind |-> "Panic", msg |-> m]

\* blake3::OUT_LEN
OUT_LEN == 32
\* blake3::KEY_LEN
KEY_LEN == 32

(***************************************************************************)
(* u8 arithmetic.  With overflow checks (the debug profile) an overflow    *)
(* panics; without them (the release profile) it wraps modulo 2^8.         *)
(***************************************************************************)
U8Wrap(x, oc) ==
    IF x >= 0 /\ x <= 255 THEN Ok(x)
    ELSE IF oc THEN Panic("arithmetic overflow")
    ELSE Ok(x % 256)

U8Sub(a, b, oc) == U8Wrap(a - b, oc)
U8Add(a, b, oc) == U8Wrap(a + b, oc)
U8Mul(a, b, oc) == U8Wrap(a * b, oc)

\* fn hex_half_byte(c: char) -> Result<u8>
hex_half_byte(c, oc) ==
    IF CharCode(c) >= 48 /\ CharCode(c) <= 57 THEN U8Sub(CharCode(c), 48, oc)
    ELSE IF CharCode(c) >= 97 /\ CharCode(c) <= 102 THEN U8Sub(CharCode(c), 107, oc)
    ELSE Err("Invalid hex")

\* *byte = 16 * hex_half_byte(high_char)? + hex_half_byte(low_char)?
\* evaluated left to right, the first error or panic ending it.
hex_byte(high_char, low_char, oc) ==
    LET h == hex_half_byte(high_char, oc) IN
    IF h.kind # "Ok" THEN h
    ELSE LET m == U8Mul(16, h.val, oc) IN
         IF m.kind # "Ok" THEN m
         ELSE LET l == hex_half_byte(low_char, oc) IN
              IF l.kind # "Ok" THEN l
              ELSE U8Add(m.val, l.val, oc)

\* The loop `for byte in &mut hash_bytes` over the hex characters.
RECURSIVE decode_hash_hex(_, _, _)
decode_hash_hex(hex, acc, oc) ==
    IF hex = <<>> THEN Ok(acc)
    ELSE LET b == hex_byte(hex[1], hex[2], oc) IN
         IF b.kind # "Ok" THEN b
         ELSE decode_hash_hex(SubSeq(hex, 3, Len(hex)), Append(acc, b.val), oc)

\* check_for_invalid_characters without the replacement-character test: not the code.
check_for_invalid_characters_nofffd(utf8_path, windows) ==
    IF Contains(utf8_path, NUL) THEN Err("Null character in path")
    ELSE IF windows /\ Contains(utf8_path, BSL) THEN Err("Backslash in path")
    ELSE Ok(<<>>)

\* fn check_for_invalid_characters(utf8_path: &str) -> Result<()>
check_for_invalid_characters(utf8_path, windows) ==
    IF Contains(utf8_path, NUL) THEN Err("Null character in path")
    ELSE IF Contains(utf8_path, FFFD) THEN Err("Unicode replacement character in path")
    ELSE IF windows /\ Contains(utf8_path, BSL) THEN Err("Backslash in path")
    ELSE Ok(<<>>)

\* str::find('\\'): the index of the first backslash, 0 when there is none.
RECURSIVE FindBsl(_, _)
FindBsl(s, i) ==
    IF i > Len(s) THEN 0 ELSE IF s[i] = BSL THEN i ELSE FindBsl(s, i + 1)

\* fn unescape(mut path: &str) -> Result<String>
RECURSIVE unescape_from(_, _)
unescape_from(path, unescaped) ==
    LET i == FindBsl(path, 1) IN
    IF i = 0 THEN Ok(unescaped \o path)
    ELSE IF ~(i < Len(path)) THEN Err("Invalid backslash escape")
    ELSE LET pre == unescaped \o SubSeq(path, 1, i - 1)
             rest == SubSeq(path, i + 2, Len(path))
         IN  IF path[i + 1] = "n" THEN unescape_from(rest, Append(pre, NL))
             ELSE IF path[i + 1] = BSL THEN unescape_from(rest, Append(pre, BSL))
             ELSE Err("Invalid backslash escape")

unescape(path) == unescape_from(path, <<>>)

\* str::trim_end_matches('\n')
RECURSIVE trim_end_newlines(_)
trim_end_newlines(s) ==
    IF s # <<>> /\ s[Len(s)] = NL THEN trim_end_newlines(SubSeq(s, 1, Len(s) - 1))
    ELSE s

hash_hex_len == 2 * OUT_LEN
prefix_len   == hash_hex_len + 2

\* parse_check_line, lines 483-505: the hash, the path text, the safety filter.
parse_tail(line, is_escaped, windows, oc) ==
    LET hash == decode_hash_hex(SubSeq(line, 1, hash_hex_len), <<>>, oc)
        file_string == SubSeq(line, prefix_len + 1, Len(line))
        un == IF is_escaped THEN unescape(file_string) ELSE Ok(file_string)
    IN  IF hash.kind # "Ok" THEN hash
        ELSE IF un.kind # "Ok" THEN un
        ELSE LET chk == check_for_invalid_characters(un.val, windows) IN
             IF chk.kind # "Ok" THEN chk
             ELSE Ok([file_string |-> file_string, is_escaped |-> is_escaped,
                      file_path |-> un.val, expected_hash |-> hash.val])

\* fn parse_check_line(mut line: &str) -> Result<ParsedCheckLine>
parse_check_line(line0, windows, oc) ==
    LET trimmed == trim_end_newlines(line0) IN
    IF trimmed = <<>> THEN Err("Empty line")
    ELSE LET is_escaped == Head(trimmed) = BSL
             line == IF is_escaped THEN Tail(trimmed) ELSE trimmed
         IN  IF ~(StrLen(line) > prefix_len) THEN Err("Short line")
             ELSE IF ~(\A i \in 1..Min(prefix_len, Len(line)) : IsAscii(line[i]))
                  THEN Err("Non-ASCII prefix")
             ELSE IF SubSeq(line, hash_hex_len + 1, hash_hex_len + 2) # <<SP, SP>>
                  THEN Err("Invalid space")
             ELSE parse_tail(line, is_escaped, windows, oc)


(***************************************************************************)
(* Encoding.  hex::encode and the escaped flag are the code's; the code    *)
(* never assembles a checkfile line (hash_one_input prints the backslash   *)
(* prefix and returns the hex digest, main writes `path:digest`), so the   *)
(* line layout and the escaping of the path text follow the checkfile      *)
(* format of the specification.                                            *)
(***************************************************************************)
HexDigits == <<"0", "1", "2", "3", "4", "5", "6", "7",
               "8", "9", "a", "b", "c", "d", "e", "f">>

\* hex::encode(&block[..]): two lowercase hex digits per byte.
RECURSIVE hex_encode(_)
hex_encode(bytes) ==
    IF bytes = <<>> THEN <<>>
    ELSE <<HexDigits[(Head(bytes) \div 16) + 1], HexDigits[(Head(bytes) % 16) + 1]>>
         \o hex_encode(Tail(bytes))

\* fn write_hex_output, with args.len() at its default blake3::OUT_LEN.
write_hex_output(output) == hex_encode(SubSeq(output, 1, Min(OUT_LEN, Len(output))))

\* str::replace('\\', "/")
RECURSIVE replace_bsl_slash(_)
replace_bsl_slash(s) ==
    IF s = <<>> THEN <<>>
    ELSE <<IF Head(s) = BSL THEN "/" ELSE Head(s)>> \o replace_bsl_slash(Tail(s))

\* filepath_to_string, lines 372-382: the local filepath_string.
filepath_string(filepath, windows) ==
    IF windows THEN replace_bsl_slash(filepath) ELSE filepath

\* fn filepath_to_string(filepath: &Path) -> bool: the escaped flag.
filepath_to_string(filepath, windows) ==
    Contains(filepath_string(filepath, windows), BSL)
    \/ Contains(filepath_string(filepath, windows), NL)

\* The escaping of the checkfile format: `\` as `\\`, newline as `\n`.
RECURSIVE escape_path(_)
escape_path(s) ==
    IF s = <<>> THEN <<>>
    ELSE (IF Head(s) = BSL THEN <<BSL, BSL>>
          ELSE IF Head(s) = NL THEN <<BSL, "n">>
          ELSE <<Head(s)>>) \o escape_path(Tail(s))

\* One checkfile line for (digest, path):
\* [`\`]<64 hex><two spaces><possibly escaped path><newline>.
encode_check_line(digest, filepath, windows) ==
    LET is_escaped == filepath_to_string(filepath, windows)
        text == filepath_string(filepath, windows)
    IN  (IF is_escaped THEN <<BSL>> ELSE <<>>)
        \o write_hex_output(digest) \o <<SP, SP>>
        \o (IF is_escaped THEN escape_path(text) ELSE text) \o <<NL>>

\* check_one_line, lines 543-547: the backslash prefix put back before the
\* raw path text.
display_file_string(p) ==
    IF p.is_escaped THEN <<BSL>> \o p.file_string ELSE p.file_string

\* The line of a parsed result: the prefix, the digest in hex, two spaces,
\* the raw path text.
reencode_check_line(p) ==
    (IF p.is_escaped THEN <<BSL>> ELSE <<>>)
    \o write_hex_output(p.expected_hash) \o <<SP, SP>> \o p.file_string

(***************************************************************************)
(* Input strategies.  A target is what a path names: `dash` for the path   *)
(* `-`, else a file with its metadata (is_file, len) and the number of     *)
(* bytes reading it yields (data: len for a regular file).  len is         *)
(* [above |-> TRUE] for a length above isize::MAX, else its byte count.    *)
(* fault names the one system call that fails for the target, if any.      *)
(*                                                                         *)
(* The bytes of a target are named by their offsets, so a byte string      *)
(* taken from it is a sequence of offset ranges <<lo, hi>> (hi excluded),  *)
(* kept with adjacent ranges merged: two such strings are the same bytes   *)
(* exactly when the sequences are equal.  The hasher is the byte string    *)
(* fed to it, and the digest stands for that string.                       *)
(***************************************************************************)
\* let mut buffer = [0; 65536]
BUFFER_LEN == 65536

\* Hasher::update / update_rayon: the bytes lo..hi-1 appended to what was fed.
hasher_update(hasher, lo, hi) ==
    IF hi <= lo THEN hasher
    ELSE IF hasher # <<>> /\ hasher[Len(hasher)][2] = lo
         THEN [hasher EXCEPT ![Len(hasher)] = <<hasher[Len(hasher)][1], hi>>]
         ELSE Append(hasher, <<lo, hi>>)

\* maybe_memmap_file without the 16 KiB threshold: not the code.
maybe_memmap_file_nothreshold(t) ==
    IF t.fault = "metadata" THEN Err("metadata")
    ELSE IF ~t.is_file \/ t.len.above \/ t.len.bytes = 0 THEN Ok([some |-> FALSE])
    ELSE IF t.fault = "mmap" THEN Err("mmap")
    ELSE Ok([some |-> TRUE, map_len |-> t.len.bytes])

\* fn maybe_memmap_file(file: &File) -> Result<Option<memmap::Mmap>>
maybe_memmap_file(t) ==
    IF t.fault = "metadata" THEN Err("metadata")
    ELSE IF ~t.is_file \/ t.len.above \/ t.len.bytes = 0 \/ t.len.bytes < 16 * 1024
         THEN Ok([some |-> FALSE])
    ELSE IF t.fault = "mmap" THEN Err("mmap")
    ELSE Ok([some |-> TRUE, map_len |-> t.len.bytes])

\* fn Input::open(path: &Path, args: &Args) -> Result<Self>
Input_open(t, args_keyed, args_no_mmap) ==
    IF t.dash
    THEN IF args_keyed THEN Err("Cannot open - in keyed mode")
         ELSE Ok([strategy |-> "Stdin"])
    ELSE IF t.fault = "open" THEN Err("open")
    ELSE IF ~args_no_mmap
         THEN LET m == maybe_memmap_file(t) IN
              IF m.kind # "Ok" THEN m
              ELSE IF m.val.some THEN Ok([strategy |-> "Mmap", map_len |-> m.val.map_len])
              ELSE Ok([strategy |-> "File"])
    ELSE Ok([strategy |-> "File"])

\* Input::hash, the Mmap arm: hasher.update_rayon(cursor.get_ref())
hash_mmap(hasher, map_len) == hasher_update(hasher, 0, map_len)

\* copy_wide's Ok(n) arm feeding the whole buffer: not the code.
copy_wide_feed_buffer(hasher, rpos, n) == hasher_update(hasher, rpos, rpos + BUFFER_LEN)

\* copy_wide, the Ok(n) arm: hasher.update(&buffer[..n]), the n bytes just read.
copy_wide_feed(hasher, rpos, n) == hasher_update(hasher, rpos, rpos + n)

\* The most one reader.read(&mut buffer) can return at offset rpos.
read_max(t, rpos) ==
    IF ~t.dash /\ t.len.above THEN BUFFER_LEN ELSE Min(BUFFER_LEN, t.data - rpos)

(***************************************************************************)
(* Manifests: the `path:digest` lines main writes and hash_verify loads.   *)
(* A HashMap<String, String> is a function from its keys to their values.  *)
(***************************************************************************)
\* str::split(sep): the pieces between the separators, in order.
RECURSIVE split_from(_, _, _)
split_from(s, sep, piece) ==
    IF s = <<>> THEN <<piece>>
    ELSE IF Head(s) = sep THEN <<piece>> \o split_from(Tail(s), sep, <<>>)
    ELSE split_from(Tail(s), sep, Append(piece, Head(s)))

split(s, sep) == split_from(s, sep, <<>>)

\* HashMap::insert: the last value inserted for a key is kept.
map_insert(m, k, v) == (k :> v) @@ m

EmptyMap == [k \in {} |-> <<>>]

\* hash_verify, lines 673-676: line.split(":"), then next() twice.
manifest_entry(ln) ==
    LET pieces == split(ln, ":") IN
    IF Len(pieces) < 2 THEN Panic("unwrap on None")
    ELSE Ok([path |-> pieces[1], hash |-> pieces[2]])

\* hash_verify, lines 672-678 and 680-686: the lines of a file inserted in order.
RECURSIVE load_manifest(_, _)
load_manifest(lines, m) ==
    IF lines = <<>> THEN Ok(m)
    ELSE LET e == manifest_entry(Head(lines)) IN
         IF e.kind # "Ok" THEN e
         ELSE load_manifest(Tail(lines), map_insert(m, e.val.path, e.val.hash))

\* main, line 653: writeln!(file, "{}:{}", path, hash); the text is given as
\* the lines BufRead::lines will read from it.
manifest_lines(path, hash) == split(path \o <<":">> \o hash, NL)

\* hash_verify, lines 691-704 without the comparison of the digests: not the code.
match_entry_no_mismatch(entry, list_in, list_chk) ==
    IF entry \notin DOMAIN list_in THEN << <<entry, "NO EXIST">> >>
    ELSE <<>>

\* hash_verify, lines 691-704: what one key of list_check prints.
match_entry(entry, list_in, list_chk) ==
    IF entry \notin DOMAIN list_in THEN << <<entry, "NO EXIST">> >>
    ELSE IF list_in[entry] # list_chk[entry] THEN << <<entry, "MISMATCH">> >>
    ELSE <<>>

(***************************************************************************)
(* The runs of main.  A file of the file system is a target that also      *)
(* carries `digest`, the 32 bytes BLAKE3 gives for its whole content.      *)
(***************************************************************************)
\* A digest that is no file's: what the hash of other bytes stands for.
OtherDigest == [i \in 1..OUT_LEN |-> 255]

\* hasher.finalize_xof() and OutputReader::fill of OUT_LEN bytes.
finalize_xof(hasher, t) ==
    IF hasher = (IF t.data = 0 THEN <<>> ELSE << <<0, t.data>> >>) THEN t.digest
    ELSE OtherDigest

\* fn copy_wide: the loop run to the end of the input, every read full.
RECURSIVE copy_wide(_, _, _)
copy_wide(t, rpos, hasher) ==
    IF t.fault = "read" THEN Err("read")
    ELSE IF read_max(t, rpos) = 0 THEN Ok(hasher)
    ELSE copy_wide(t, rpos + read_max(t, rpos),
                   copy_wide_feed(hasher, rpos, read_max(t, rpos)))

\* fn Input::hash(&mut self, args: &Args) -> Result<blake3::OutputReader>
Input_hash(t, inp) ==
    IF inp.strategy = "Mmap" THEN Ok(finalize_xof(hash_mmap(<<>>, inp.map_len), t))
    ELSE LET r == copy_wide(t, 0, <<>>) IN
         IF r.kind # "Ok" THEN r ELSE Ok(finalize_xof(r.val, t))

\* Input::open(..).and_then(|mut input| input.hash(args))
open_and_hash(t, args_keyed, args_no_mmap) ==
    LET inp == Input_open(t, args_keyed, args_no_mmap) IN
    IF inp.kind # "Ok" THEN inp ELSE Input_hash(t, inp.val)

\* fn hash_one_input(path: &Path, args: &Args) -> String: open and hash are
\* unwrapped, so an error of either panics.
hash_one_input(t, args_keyed, args_no_mmap) ==
    LET r == open_and_hash(t, args_keyed, args_no_mmap) IN
    IF r.kind # "Ok" THEN Panic("unwrap on Err") ELSE Ok(write_hex_output(r.val))

\* The files the lines of a checkfile may name: `x`, a 20 KiB file whose
\* digest is written with the digits 0-9 only; `y`, a one byte file whose
\* digest has the hex digits `ab`; `d`, a directory; `-`, standard input;
\* any other path names nothing.
DigestX == [i \in 1..OUT_LEN |-> IF i = 1 THEN 9 ELSE 0]
DigestY == [i \in 1..OUT_LEN |-> IF i = OUT_LEN THEN 171 ELSE 0]
DigestIn == [i \in 1..OUT_LEN |-> IF i = 1 THEN 18 ELSE 0]

regular_file(n, f, dg) ==
    [dash |-> FALSE, is_file |-> TRUE, len |-> [above |-> FALSE, bytes |-> n],
     data |-> n, fault |-> f, digest |-> dg]

target_of(path) ==
    IF path = <<"-">> THEN [dash |-> TRUE, data |-> 1, fault |-> "none", digest |-> DigestIn]
    ELSE IF path = <<"x">> THEN regular_file(20 * 1024, "none", DigestX)
    ELSE IF path = <<"y">> THEN regular_file(1, "none", DigestY)
    ELSE IF path = <<"d">>
    THEN [dash |-> FALSE, is_file |-> FALSE, len |-> [above |-> FALSE, bytes |-> 4096],
          data |-> 0, fault |-> "read", digest |-> OtherDigest]
    ELSE regular_file(0, "open", OtherDigest)

\* check_one_line, lines 547-571: the file hashed and compared with the digest
\* of the line, and what is printed on stdout.
check_one_line_report(name, expected_hash, found, args_quiet) ==
    IF found.kind # "Ok"
    THEN [panic |-> FALSE, success |-> FALSE, out |-> << <<name, "FAILED (reason)">> >>]
    ELSE IF expected_hash = found.val
    THEN [panic |-> FALSE, success |-> TRUE,
          out |-> IF args_quiet THEN <<>> ELSE << <<name, "OK">> >>]
    ELSE [panic |-> FALSE, success |-> FALSE, out |-> << <<name, "FAILED">> >>]

\* check_one_line, lines 530-546: the result of parse_check_line matched.
\* --check excludes --keyed.
check_one_line_parsed(p, args_no_mmap, args_quiet) ==
    IF p.kind = "Panic" THEN [panic |-> TRUE, success |-> FALSE, out |-> <<>>]
    ELSE IF p.kind = "Err" THEN [panic |-> FALSE, success |-> FALSE, out |-> <<>>]
    ELSE check_one_line_report(display_file_string(p.val), p.val.expected_hash,
                               open_and_hash(target_of(p.val.file_path), FALSE, args_no_mmap),
                               args_quiet)

\* fn check_one_line(line: &str, args: &Args) -> bool, with what it prints on
\* stdout.
check_one_line(ln, args_no_mmap, args_quiet, win, oc) ==
    check_one_line_parsed(parse_check_line(ln, win, oc), args_no_mmap, args_quiet)

\* read_key_from_stdin taking the first KEY_LEN bytes of a longer input: not the code.
read_key_from_stdin_truncating(supplied) ==
    IF Min(supplied, KEY_LEN + 1) < 32 THEN Err("expected 32 key bytes from stdin")
    ELSE Ok(KEY_LEN)

\* fn read_key_from_stdin() -> Result<[u8; blake3::KEY_LEN]>, stdin holding
\* `supplied` bytes: at most KEY_LEN + 1 are read.
read_key_from_stdin(supplied) ==
    LET n == Min(supplied, KEY_LEN + 1) IN
    IF n < 32 THEN Err("expected 32 key bytes from stdin")
    ELSE IF n > 32 THEN Err("read more than 32 bytes from stdin")
    ELSE Ok(KEY_LEN)

(***************************************************************************)
(* State.                                                                  *)
(***************************************************************************)
VARIABLES
    windows,          \* cfg!(windows)
    overflow_checks,  \* the build profile's overflow checks
    cpc,              \* codec: the next step
    in_digest,        \* codec: the digest to encode
    in_path,          \* codec: the path to encode
    line,             \* codec: the checkfile line
    parsed,           \* codec: parse_check_line's result
    reline,           \* codec: the line re-encoded from the parsed result
    keyed,            \* args.keyed()
    no_mmap,          \* args.no_mmap()
    target,           \* input: what the path names
    input,            \* input: Input::open's result
    ipc,              \* input: the next step
    rpos,             \* input: the reader's offset
    hasher,           \* input: the bytes fed to the hasher
    total,            \* input: copy_wide's total
    interrupts,       \* input: the interrupted reads so far
    short_reads,      \* input: the short reads so far
    hash_out,         \* input: Input::hash's result
    vpc,              \* verify: the next step
    hash_list,        \* verify: the list hash mode wrote file A from
    unwritten,        \* verify: the keys of hash_list not yet written
    file_input,       \* verify: the lines of manifest A (the input argument)
    file_check,       \* verify: the lines of manifest B (the output argument)
    list_input,       \* verify: list_input
    list_check,       \* verify: list_check
    unmatched,        \* verify: the keys of list_check not yet visited
    stdout,           \* verify: the lines printed
    exit_code,        \* the exit status of the process, -1 while it runs
    mpc,              \* main: the next step
    check,            \* main: args.check()
    quiet,            \* main: args.quiet()
    key_supplied,     \* main: the bytes standard input holds for the key
    root,             \* main: file_args[0], with the entries of its walk
    output_ok,        \* main: whether File::create(output_path) succeeds
    walk_i,           \* main: the entry of the walk that is next
    line_i,           \* main: the line of the open checkfile that is next
    list,             \* main: list
    some_file_failed, \* main: some_file_failed
    output_file,      \* main: the output file, once created
    printed,          \* main: the lines printed on stdout
    line_results      \* main: each line check_one_line was given, with its result

buildVars == <<windows, overflow_checks>>
codecVars == <<cpc, in_digest, in_path, line, parsed, reline>>
inputVars == <<keyed, no_mmap, target, input, ipc, rpos, hasher, total,
               interrupts, short_reads, hash_out>>
verifyVars == <<vpc, hash_list, unwritten, file_input, file_check, list_input,
                list_check, unmatched, stdout>>
mainVars == <<mpc, check, quiet, key_supplied, root, output_ok, walk_i, line_i,
              list, some_file_failed, output_file, printed, line_results>>
vars == <<buildVars, codecVars, inputVars, verifyVars, exit_code, mainVars>>

NoResult == [kind |-> "None"]

\* The longest path text of the enumerated inputs.
MaxPathLen == 3

SeqsUpTo(S, n) == UNION {[1..k -> S] : k \in 0..n}

\* Digests: 32 bytes, the first and the last drawn from DigestBytes.
DigestBytes == {0, 9, 26, 160, 222, 255}
Digests ==
    {[i \in 1..OUT_LEN |-> IF i = 1 THEN b1 ELSE IF i = OUT_LEN THEN b2 ELSE 0] :
        b1 \in DigestBytes, b2 \in {0, 171}}

\* Paths handed to the encoder.
EncodePathChars == {"x", "n", BSL, NL}
EncodePaths == SeqsUpTo(EncodePathChars, MaxPathLen) \ {<<>>}

\* Hash regions: `len` characters, the first two drawn from HexChars.
HexChars == {"0", "9", "a", "f", "A", "g", FFFD}
HexRegion(len, c1, c2) ==
    [i \in 1..len |-> IF i = 1 THEN c1 ELSE IF i = 2 THEN c2 ELSE "0"]

Separators == {<<SP, SP>>, <<SP>>, <<"x", SP>>}
LinePathChars == {"x", "n", BSL, NUL, FFFD}

\* Lines that vary the hash region and the separator.
HexFamilyLines ==
    {(IF pre THEN <<BSL>> ELSE <<>>) \o HexRegion(len, c1, c2) \o sep \o path :
        pre \in BOOLEAN,
        len \in {hash_hex_len - 1, hash_hex_len, hash_hex_len + 1},
        c1 \in HexChars, c2 \in HexChars, sep \in Separators,
        path \in {<<>>, <<"x">>, <<"x", "x">>, <<BSL, "n">>, <<"x", BSL>>}}

\* Lines that vary the path text.
PathFamilyLines ==
    {(IF pre THEN <<BSL>> ELSE <<>>) \o HexRegion(hash_hex_len, c1, "0")
        \o <<SP, SP>> \o path \o (IF nl THEN <<NL>> ELSE <<>>) :
        pre \in BOOLEAN, c1 \in {"0", "a"}, nl \in BOOLEAN,
        path \in SeqsUpTo(LinePathChars, MaxPathLen)}

Lines == HexFamilyLines \cup PathFamilyLines \cup {<<>>, <<NL>>, <<BSL>>}

InitBuild ==
    /\ windows \in BOOLEAN
    /\ overflow_checks \in BOOLEAN

\* The input strategies at rest.
IdleArgs ==
    /\ keyed = FALSE
    /\ no_mmap = FALSE

IdleInput ==
    /\ target = [dash |-> TRUE, data |-> 0, fault |-> "none"]
    /\ input = NoResult
    /\ ipc = "idle"
    /\ rpos = 0
    /\ hasher = <<>>
    /\ total = 0
    /\ interrupts = 0
    /\ short_reads = 0
    /\ hash_out = NoResult

\* hash_verify at rest.
IdleVerify ==
    /\ vpc = "idle"
    /\ hash_list = EmptyMap
    /\ unwritten = {}
    /\ file_input = [exists |-> FALSE, lines |-> <<>>]
    /\ file_check = [exists |-> FALSE, lines |-> <<>>]
    /\ list_input = EmptyMap
    /\ list_check = EmptyMap
    /\ unmatched = {}
    /\ stdout = <<>>

\* main at rest.
IdleMain ==
    /\ mpc = "idle"
    /\ check = FALSE
    /\ quiet = FALSE
    /\ key_supplied = 0
    /\ root = [is_dir |-> FALSE, entries |-> <<>>]
    /\ output_ok = TRUE
    /\ walk_i = 1
    /\ line_i = 1
    /\ list = EmptyMap
    /\ some_file_failed = FALSE
    /\ output_file = [created |-> FALSE, lines |-> {}]
    /\ printed = <<>>
    /\ line_results = <<>>

InitCodec ==
    /\ IdleMain
    /\ InitBuild
    /\ IdleArgs
    /\ IdleInput
    /\ IdleVerify
    /\ exit_code = -1
    /\ parsed = NoResult
    /\ reline = <<>>
    /\ \/ /\ cpc = "encode"
          /\ in_digest \in Digests
          /\ in_path \in EncodePaths
          /\ line = <<>>
       \/ /\ cpc = "parse"
          /\ in_digest = <<>>
          /\ in_path = <<>>
          /\ line \in Lines

\* Encoding (digest, path) into one checkfile line.
EncodeCheckLine ==
    /\ cpc = "encode"
    /\ line' = encode_check_line(in_digest, in_path, windows)
    /\ cpc' = "parse"
    /\ UNCHANGED <<buildVars, inputVars, verifyVars, exit_code, mainVars, in_digest, in_path, parsed, reline>>

\* parse_check_line(line)
ParseCheckLine ==
    /\ cpc = "parse"
    /\ parsed' = parse_check_line(line, windows, overflow_checks)
    /\ cpc' = IF parsed'.kind = "Ok" THEN "reencode"
              ELSE IF parsed'.kind = "Panic" THEN "panicked" ELSE "rejected"
    /\ UNCHANGED <<buildVars, inputVars, verifyVars, exit_code, mainVars, in_digest, in_path, line, reline>>

\* Re-encoding the parsed result.
ReencodeCheckLine ==
    /\ cpc = "reencode"
    /\ reline' = reencode_check_line(parsed.val)
    /\ cpc' = "done"
    /\ UNCHANGED <<buildVars, inputVars, verifyVars, exit_code, mainVars, in_digest, in_path, line, parsed>>

NextCodec == EncodeCheckLine \/ ParseCheckLine \/ ReencodeCheckLine

SpecCodec == InitCodec /\ [][NextCodec]_vars

(***************************************************************************)
(* Input::open and Input::hash on one target.                              *)
(***************************************************************************)
\* A run that decodes no hex and looks at no path text: the build is of no account.
IdleBuild ==
    /\ windows = FALSE
    /\ overflow_checks = FALSE

\* The codec at rest.
IdleCodec ==
    /\ cpc = "idle"
    /\ in_digest = <<>>
    /\ in_path = <<>>
    /\ line = <<>>
    /\ parsed = NoResult
    /\ reline = <<>>

\* The interrupted reads and the short reads one hashing may meet.
MaxInterrupts == 2
MaxShortReads == 2
\* The buffers read from a file longer than isize::MAX.
MaxHugeReads == 2

FileSizes == {0, 1, 16 * 1024 - 1, 16 * 1024, 20 * 1024,
              BUFFER_LEN, BUFFER_LEN + 1, 2 * BUFFER_LEN + 1}
ShortSizes == {1, 4096}
Faults == {"none", "open", "metadata", "mmap", "read"}

Targets ==
    {[dash |-> TRUE, data |-> n, fault |-> f] :
        n \in FileSizes, f \in {"none", "read"}}
    \cup {[dash |-> FALSE, is_file |-> TRUE, len |-> [above |-> FALSE, bytes |-> n],
           data |-> n, fault |-> f] : n \in FileSizes, f \in Faults}
    \cup {[dash |-> FALSE, is_file |-> TRUE, len |-> [above |-> TRUE], data |-> 0,
           fault |-> f] : f \in Faults}
    \cup {[dash |-> FALSE, is_file |-> FALSE, len |-> [above |-> FALSE, bytes |-> m],
           data |-> n, fault |-> f] :
           m \in {0, 20 * 1024}, n \in {0, 1, BUFFER_LEN + 1}, f \in Faults}

InitInput ==
    /\ IdleMain
    /\ IdleBuild
    /\ IdleCodec
    /\ IdleVerify
    /\ exit_code = -1
    /\ keyed \in BOOLEAN
    /\ no_mmap \in BOOLEAN
    /\ target \in Targets
    /\ input = NoResult
    /\ ipc = "open"
    /\ rpos = 0
    /\ hasher = <<>>
    /\ total = 0
    /\ interrupts = 0
    /\ short_reads = 0
    /\ hash_out = NoResult

\* Input::open(path, args)
InputOpen ==
    /\ ipc = "open"
    /\ input' = Input_open(target, keyed, no_mmap)
    /\ ipc' = IF input'.kind = "Ok" THEN "hash" ELSE "open_failed"
    /\ UNCHANGED <<buildVars, codecVars, verifyVars, exit_code, mainVars, keyed, no_mmap, target, rpos, hasher, total,
                   interrupts, short_reads, hash_out>>

Reading == ipc = "hash" /\ input.val.strategy \in {"File", "Stdin"}

\* Input::hash, the Mmap arm, and finalize_xof.
HashMmap ==
    /\ ipc = "hash"
    /\ input.val.strategy = "Mmap"
    /\ hasher' = hash_mmap(hasher, input.val.map_len)
    /\ hash_out' = Ok(hasher')
    /\ ipc' = "hashed"
    /\ UNCHANGED <<buildVars, codecVars, verifyVars, exit_code, mainVars, keyed, no_mmap, target, input, rpos, total,
                   interrupts, short_reads>>

\* copy_wide: reader.read returns Ok(n), n > 0.
ReadData ==
    /\ Reading
    /\ read_max(target, rpos) > 0
    /\ (~target.dash /\ target.len.above) => rpos < MaxHugeReads * BUFFER_LEN
    /\ \E n \in {read_max(target, rpos)}
                \cup {k \in ShortSizes : k < read_max(target, rpos)
                                          /\ short_reads < MaxShortReads} :
          /\ hasher' = copy_wide_feed(hasher, rpos, n)
          /\ total' = total + n
          /\ rpos' = rpos + n
          /\ short_reads' = IF n < read_max(target, rpos) THEN short_reads + 1
                            ELSE short_reads
    /\ UNCHANGED <<buildVars, codecVars, verifyVars, exit_code, mainVars, keyed, no_mmap, target, input, ipc,
                   interrupts, hash_out>>

\* copy_wide: reader.read returns Ok(0); copy_wide returns Ok(total) and
\* Input::hash the finalized hasher.
ReadEof ==
    /\ Reading
    /\ read_max(target, rpos) = 0
    /\ hash_out' = Ok(hasher)
    /\ ipc' = "hashed"
    /\ UNCHANGED <<buildVars, codecVars, verifyVars, exit_code, mainVars, keyed, no_mmap, target, input, rpos, hasher,
                   total, interrupts, short_reads>>

\* copy_wide returning the interrupted read's error as it does any other: not the code.
ReadInterrupted_terminal ==
    /\ Reading
    /\ interrupts < MaxInterrupts
    /\ interrupts' = interrupts + 1
    /\ hash_out' = Err("interrupted")
    /\ ipc' = "hash_failed"
    /\ UNCHANGED <<buildVars, codecVars, verifyVars, exit_code, mainVars, keyed, no_mmap, target, input, rpos,
                   hasher, total, short_reads>>

\* copy_wide: reader.read fails with ErrorKind::Interrupted; the loop continues.
ReadInterrupted ==
    /\ Reading
    /\ interrupts < MaxInterrupts
    /\ interrupts' = interrupts + 1
    /\ UNCHANGED <<buildVars, codecVars, verifyVars, exit_code, mainVars, keyed, no_mmap, target, input, ipc, rpos,
                   hasher, total, short_reads, hash_out>>

\* copy_wide: reader.read fails with another error, which copy_wide returns.
ReadError ==
    /\ Reading
    /\ target.fault = "read"
    /\ hash_out' = Err("read")
    /\ ipc' = "hash_failed"
    /\ UNCHANGED <<buildVars, codecVars, verifyVars, exit_code, mainVars, keyed, no_mmap, target, input, rpos, hasher,
                   total, interrupts, short_reads>>

NextInput ==
    InputOpen \/ HashMmap \/ ReadData \/ ReadEof \/ ReadInterrupted \/ ReadError

SpecInput == InitInput /\ [][NextInput]_vars

\* The loop of copy_wide keeps running: a read that can return does return.
\* The interrupted reads of a run are at most MaxInterrupts.
SpecInputFair == SpecInput /\ WF_vars(NextInput)

(***************************************************************************)
(* hash_verify: manifest A (the input argument) against manifest B (the    *)
(* output argument).  Manifest A is any file, or the file main wrote from  *)
(* the list of a hash run.                                                 *)
(***************************************************************************)
\* The lines of a manifest file.
MaxManifestLines == 2

ManifestLines ==
    {<<"x", ":", "0">>, <<"x", ":", "a">>, <<"y", ":", "0">>, <<"y", ":", "a">>,
     <<"x">>, <<"x", ":", "0", ":", "a">>}
ManifestFiles ==
    {[exists |-> TRUE, lines |-> l] : l \in SeqsUpTo(ManifestLines, MaxManifestLines)}
    \cup {[exists |-> FALSE, lines |-> <<>>]}

\* The lists of a hash run: paths, one of them with a newline, to digests.
ListPaths == {<<"x">>, <<"y">>, <<"x", NL, "y">>}
ListHashes == {<<"0">>, <<"a">>}
HashLists == UNION {[ps -> ListHashes] : ps \in SUBSET ListPaths}

InitVerify ==
    /\ IdleMain
    /\ IdleBuild
    /\ IdleCodec
    /\ IdleArgs
    /\ IdleInput
    /\ exit_code = -1
    /\ file_check \in ManifestFiles
    /\ list_input = EmptyMap
    /\ list_check = EmptyMap
    /\ unmatched = {}
    /\ stdout = <<>>
    /\ \/ /\ vpc = "write"
          /\ hash_list \in HashLists \ {EmptyMap}
          /\ unwritten = DOMAIN hash_list
          /\ file_input = [exists |-> TRUE, lines |-> <<>>]
       \/ /\ vpc = "open"
          /\ hash_list = EmptyMap
          /\ unwritten = {}
          /\ file_input \in ManifestFiles

\* main, lines 652-654: one entry of the list written, in HashMap order.
WriteManifestEntry ==
    /\ vpc = "write"
    /\ \E path \in unwritten :
          /\ file_input' = [file_input EXCEPT
                               !.lines = @ \o manifest_lines(path, hash_list[path])]
          /\ unwritten' = unwritten \ {path}
          /\ vpc' = IF unwritten' = {} THEN "open" ELSE "write"
    /\ UNCHANGED <<buildVars, codecVars, inputVars, mainVars, exit_code, hash_list, file_check,
                   list_input, list_check, unmatched, stdout>>

\* hash_verify, lines 666-669: File::open(..).unwrap() of both files.
VerifyOpen ==
    /\ vpc = "open"
    /\ IF file_input.exists /\ file_check.exists
       THEN vpc' = "load_input" /\ exit_code' = exit_code
       ELSE vpc' = "panicked" /\ exit_code' = 101
    /\ UNCHANGED <<buildVars, codecVars, inputVars, mainVars, hash_list, unwritten, file_input,
                   file_check, list_input, list_check, unmatched, stdout>>

\* hash_verify, lines 672-678: the input file loaded into list_input.
LoadInput ==
    /\ vpc = "load_input"
    /\ LET r == load_manifest(file_input.lines, EmptyMap) IN
          IF r.kind = "Ok"
          THEN list_input' = r.val /\ vpc' = "load_check" /\ exit_code' = exit_code
          ELSE list_input' = list_input /\ vpc' = "panicked" /\ exit_code' = 101
    /\ UNCHANGED <<buildVars, codecVars, inputVars, mainVars, hash_list, unwritten, file_input,
                   file_check, list_check, unmatched, stdout>>

\* hash_verify, lines 680-686: the check file loaded into list_check.
LoadCheck ==
    /\ vpc = "load_check"
    /\ LET r == load_manifest(file_check.lines, EmptyMap) IN
          IF r.kind = "Ok"
          THEN /\ list_check' = r.val
               /\ unmatched' = DOMAIN r.val
               /\ vpc' = "match"
               /\ exit_code' = exit_code
          ELSE /\ list_check' = list_check
               /\ unmatched' = unmatched
               /\ vpc' = "panicked"
               /\ exit_code' = 101
    /\ UNCHANGED <<buildVars, codecVars, inputVars, mainVars, hash_list, unwritten, file_input,
                   file_check, list_input, stdout>>

\* hash_verify, lines 689-705: one key of list_check, in HashMap order.
MatchEntry ==
    /\ vpc = "match"
    /\ \E entry \in unmatched :
          /\ stdout' = stdout \o match_entry(entry, list_input, list_check)
          /\ unmatched' = unmatched \ {entry}
    /\ UNCHANGED <<buildVars, codecVars, inputVars, mainVars, exit_code, vpc, hash_list,
                   unwritten, file_input, file_check, list_input, list_check>>

\* hash_verify, line 706: std::process::exit(0) after the loop.
VerifyExit ==
    /\ vpc = "match"
    /\ unmatched = {}
    /\ vpc' = "exited"
    /\ exit_code' = 0
    /\ UNCHANGED <<buildVars, codecVars, inputVars, mainVars, hash_list, unwritten, file_input,
                   file_check, list_input, list_check, unmatched, stdout>>

NextVerify ==
    WriteManifestEntry \/ VerifyOpen \/ LoadInput \/ LoadCheck \/ MatchEntry \/ VerifyExit

SpecVerify == InitVerify /\ [][NextVerify]_vars

(***************************************************************************)
(* main in hash mode and in check mode: the walk over file_args[0], the    *)
(* manifest written to the output file, the exit status.                   *)
(***************************************************************************)
\* The entries of a walk and the lines of a checkfile.
MaxWalk == 2
MaxCheckLines == 2

\* The i-th entry of a walk in directory order.
WalkPath(i) == <<"x", HexDigits[i + 1]>>
WalkDigest(i) == [j \in 1..OUT_LEN |-> IF j = 1 THEN i ELSE 0]
WalkEntries(i) ==
    {[path |-> WalkPath(i), t |-> regular_file(n, f, WalkDigest(i)), lines |-> <<>>] :
        n \in {1, 20 * 1024}, f \in {"none", "open", "read"}}

\* file_args[0] in hash mode: a directory of regular files, or one path.
HashRoots ==
    {[is_dir |-> TRUE, entries |-> es] :
        es \in UNION {{e \in [1..k -> UNION {WalkEntries(i) : i \in 1..k}] :
                          \A i \in 1..k : e[i] \in WalkEntries(i)} : k \in 0..MaxWalk}}
    \cup {[is_dir |-> FALSE, entries |-> <<[path |-> p, t |-> target_of(p), lines |-> <<>>]>>] :
            p \in {<<"-">>, <<"x">>, <<"y">>, <<"n">>}}

\* One line of a checkfile: the digest in hex, two spaces, the path, a newline.
check_line(dg, path) == hex_encode(dg) \o <<SP, SP>> \o path \o <<NL>>

CheckLines ==
    {check_line(DigestX, <<"x">>), check_line(DigestY, <<"x">>),
     check_line(DigestY, <<"y">>), check_line(DigestX, <<"n">>),
     check_line(DigestX, <<"d">>), <<"g", NL>>}

Checkfiles(path, faults) ==
    {[path |-> path, t |-> regular_file(1, f, OtherDigest), lines |-> ls] :
        f \in faults, ls \in SeqsUpTo(CheckLines, MaxCheckLines)}

\* file_args[0] in check mode: one checkfile, or a directory of two.
\* No path of CheckLines holds a backslash, so cfg!(windows) changes nothing here.
CheckRoots ==
    {[is_dir |-> FALSE, entries |-> <<cf>>] :
        cf \in Checkfiles(<<"x", "1">>, {"none", "open", "read"})}
    \cup {[is_dir |-> TRUE, entries |-> <<cf, cf2>>] :
            cf \in Checkfiles(<<"x", "1">>, {"none"}),
            cf2 \in {[path |-> <<"x", "2">>, t |-> regular_file(1, "none", OtherDigest),
                      lines |-> ls] :
                        ls \in {<<>>, <<check_line(DigestX, <<"x">>)>>}}}

InitMain ==
    /\ IdleCodec
    /\ IdleInput
    /\ IdleVerify
    /\ exit_code = -1
    /\ mpc = "parse_args"
    /\ no_mmap \in BOOLEAN
    /\ output_ok \in BOOLEAN
    /\ walk_i = 1
    /\ line_i = 1
    /\ list = EmptyMap
    /\ some_file_failed = FALSE
    /\ output_file = [created |-> FALSE, lines |-> {}]
    /\ printed = <<>>
    /\ line_results = <<>>
    /\ \/ /\ check = FALSE
          /\ quiet = FALSE
          /\ IdleBuild
          /\ root \in HashRoots
          /\ \/ keyed = FALSE /\ key_supplied = 0
             \/ keyed = TRUE /\ key_supplied \in {0, KEY_LEN - 1, KEY_LEN, KEY_LEN + 1, 2 * KEY_LEN}
       \/ /\ check = TRUE
          /\ quiet \in BOOLEAN
          /\ windows = FALSE
          /\ overflow_checks \in BOOLEAN
          /\ root \in CheckRoots
          /\ keyed = FALSE
          /\ key_supplied = 0

Entry == root.entries[walk_i]

mainRest == <<buildVars, codecVars, verifyVars, rpos, hasher, total, interrupts,
              short_reads, hash_out, target, input, ipc>>

\* main, line 595: Args::parse()?, which reads the key in keyed mode.
ArgsParse ==
    /\ mpc = "parse_args"
    /\ IF keyed /\ read_key_from_stdin(key_supplied).kind # "Ok"
       THEN mpc' = "failed" /\ exit_code' = 1
       ELSE mpc' = "walk" /\ exit_code' = exit_code
    /\ UNCHANGED <<mainRest, keyed, no_mmap, check, quiet, key_supplied, root, output_ok,
                   walk_i, line_i, list, some_file_failed, output_file, printed,
                   line_results>>

\* main, lines 624-627 and 644-647: list.insert(path, hash_one_input(path, &args)).
HashEntry ==
    /\ mpc = "walk"
    /\ ~check
    /\ walk_i <= Len(root.entries)
    /\ LET r == hash_one_input(Entry.t, keyed, no_mmap) IN
          IF r.kind = "Ok"
          THEN /\ list' = map_insert(list, Entry.path, r.val)
               /\ walk_i' = walk_i + 1
               /\ mpc' = mpc
               /\ exit_code' = exit_code
          ELSE /\ list' = list
               /\ walk_i' = walk_i
               /\ mpc' = "panicked"
               /\ exit_code' = 101
    /\ UNCHANGED <<mainRest, keyed, no_mmap, check, quiet, key_supplied, root, output_ok,
                   line_i, some_file_failed, output_file, printed, line_results>>

\* check_one_checkfile, line 575: Input::open(path, args)?
OpenCheckfile ==
    /\ mpc = "walk"
    /\ check
    /\ walk_i <= Len(root.entries)
    /\ IF Input_open(Entry.t, keyed, no_mmap).kind = "Ok"
       THEN mpc' = "lines" /\ exit_code' = exit_code
       ELSE mpc' = "failed" /\ exit_code' = 1
    /\ line_i' = 1
    /\ UNCHANGED <<mainRest, keyed, no_mmap, check, quiet, key_supplied, root, output_ok,
                   walk_i, list, some_file_failed, output_file, printed, line_results>>

\* check_one_checkfile, lines 580-590: one line read and given to check_one_line.
CheckLine ==
    /\ mpc = "lines"
    /\ Entry.t.fault # "read"
    /\ line_i <= Len(Entry.lines)
    /\ LET r == check_one_line(Entry.lines[line_i], no_mmap, quiet, windows,
                               overflow_checks) IN
          IF r.panic
          THEN /\ mpc' = "panicked"
               /\ exit_code' = 101
               /\ UNCHANGED <<line_i, some_file_failed, printed, line_results>>
          ELSE /\ printed' = printed \o r.out
               /\ some_file_failed' = IF ~r.success THEN TRUE ELSE some_file_failed
               /\ line_results' = Append(line_results,
                                         [ln |-> Entry.lines[line_i], success |-> r.success])
               /\ line_i' = line_i + 1
               /\ UNCHANGED <<mpc, exit_code>>
    /\ UNCHANGED <<mainRest, keyed, no_mmap, check, quiet, key_supplied, root, output_ok,
                   walk_i, list, output_file>>

\* check_one_checkfile, lines 580-586: read_line returns 0 at the end of the file.
ReadLineEof ==
    /\ mpc = "lines"
    /\ Entry.t.fault # "read"
    /\ line_i > Len(Entry.lines)
    /\ mpc' = "walk"
    /\ walk_i' = walk_i + 1
    /\ UNCHANGED <<mainRest, exit_code, keyed, no_mmap, check, quiet, key_supplied, root,
                   output_ok, line_i, list, some_file_failed, output_file, printed,
                   line_results>>

\* check_one_checkfile, line 582: read_line fails and expect panics.
ReadLinePanic ==
    /\ mpc = "lines"
    /\ Entry.t.fault = "read"
    /\ mpc' = "panicked"
    /\ exit_code' = 101
    /\ UNCHANGED <<mainRest, keyed, no_mmap, check, quiet, key_supplied, root, output_ok,
                   walk_i, line_i, list, some_file_failed, output_file, printed,
                   line_results>>

\* main, lines 651-655: the output file created, the list written, the exit.
WriteOutput ==
    /\ mpc = "walk"
    /\ walk_i > Len(root.entries)
    /\ IF output_ok
       THEN /\ output_file' = [created |-> TRUE,
                               lines |-> {path \o <<":">> \o list[path] : path \in DOMAIN list}]
            /\ mpc' = "exited"
            /\ exit_code' = IF some_file_failed THEN 1 ELSE 0
       ELSE /\ output_file' = output_file
            /\ mpc' = "failed"
            /\ exit_code' = 1
    /\ UNCHANGED <<mainRest, keyed, no_mmap, check, quiet, key_supplied, root, output_ok,
                   walk_i, line_i, list, some_file_failed, printed, line_results>>

NextMain ==
    ArgsParse \/ HashEntry \/ OpenCheckfile \/ CheckLine \/ ReadLineEof
    \/ ReadLinePanic \/ WriteOutput

SpecMain == InitMain /\ [][NextMain]_vars

(***************************************************************************)
(* Claims about the checkfile codec, under SpecCodec.                      *)
(***************************************************************************)
Encoded == in_digest # <<>> /\ cpc \notin {"encode", "parse"}
Decoded == cpc \notin {"encode", "parse"}

\* The line with its trailing newline and its backslash prefix taken off.
LineBody == 
    LET t == trim_end_newlines(line) IN
    IF t # <<>> /\ Head(t) = BSL THEN Tail(t) ELSE t
LinePrefixed == trim_end_newlines(line) # <<>> /\ Head(trim_end_newlines(line)) = BSL
LinePathText == SubSeq(LineBody, prefix_len + 1, Len(LineBody))

\* C1: decoding the line that encodes (digest, path) gives back the digest
\* and the path text; the line carries the `\` prefix exactly when the path
\* text holds a backslash or a newline, and then the escaped path text.
C1_DecodeOfEncode ==
    Encoded =>
        LET text == filepath_string(in_path, windows)
            esc == Contains(text, BSL) \/ Contains(text, NL)
        IN  /\ parsed.kind = "Ok"
            /\ parsed.val.expected_hash = in_digest
            /\ parsed.val.file_path = text
            /\ parsed.val.is_escaped = esc
            /\ LinePrefixed = esc
            /\ LinePathText = (IF esc THEN escape_path(text) ELSE text)

\* C2: re-encoding the parsed result of an accepted line gives the line back.
C2_EncodeOfDecode ==
    cpc = "done" => reline = trim_end_newlines(line)

LowerHex == {"0", "1", "2", "3", "4", "5", "6", "7", "8", "9",
             "a", "b", "c", "d", "e", "f"}

\* A path text with a lone trailing backslash or an unknown escape.
RECURSIVE BadEscape(_)
BadEscape(p) ==
    IF p = <<>> THEN FALSE
    ELSE IF Head(p) = BSL
         THEN Len(p) = 1 \/ p[2] \notin {"n", BSL} \/ BadEscape(SubSeq(p, 3, Len(p)))
         ELSE BadEscape(Tail(p))

BadHashChar == \E i \in 1..Min(hash_hex_len, Len(LineBody)) : LineBody[i] \notin LowerHex
BadSeparator ==
    Len(LineBody) < prefix_len
    \/ SubSeq(LineBody, hash_hex_len + 1, prefix_len) # <<SP, SP>>
EmptyPath == Len(LineBody) <= prefix_len
Malformed ==
    BadHashChar \/ BadSeparator \/ EmptyPath \/ (LinePrefixed /\ BadEscape(LinePathText))

\* C3: parse_check_line returns an error for every malformed line.
C3_MalformedIsError ==
    (Decoded /\ Malformed) => parsed.kind = "Err"

Opened == ipc \notin {"idle", "open"}

\* The conditions under which a path other than `-` is memory-mapped.
MmapConditions ==
    /\ ~no_mmap
    /\ target.is_file
    /\ ~target.len.above
    /\ target.len.bytes >= 16 * 1024
    /\ target.len.bytes # 0

\* C5: Input::open gives the stdin strategy for `-` (an error in keyed mode);
\* any other path is memory-mapped exactly under MmapConditions, with the
\* map as long as the size then observed, and read through the buffered
\* file strategy otherwise; it fails only when a system call fails.
C5_OpenStrategy ==
    Opened =>
        IF target.dash
        THEN IF keyed THEN input.kind = "Err" ELSE input = Ok([strategy |-> "Stdin"])
        ELSE /\ input.kind \in {"Ok", "Err"}
             /\ input.kind = "Err" <=>
                    \/ target.fault = "open"
                    \/ ~no_mmap /\ target.fault = "metadata"
                    \/ MmapConditions /\ target.fault = "mmap"
             /\ input.kind = "Ok" =>
                    IF MmapConditions
                    THEN input.val = [strategy |-> "Mmap", map_len |-> target.len.bytes]
                    ELSE input.val = [strategy |-> "File"]

\* A file of exactly 16 KiB was mapped.
C5_Witness ==
    /\ Opened
    /\ input.kind = "Ok"
    /\ input.val.strategy = "Mmap"
    /\ target.len.bytes = 16 * 1024

\* The whole content of the target, in order, as one byte string.
WholeContent == IF target.data = 0 THEN <<>> ELSE << <<0, target.data>> >>

\* C6: whichever strategy read the target, the digest is that of its whole
\* content in order: the mapped buffer in one update and the chunks of
\* copy_wide, whatever the sizes of the reads, are the same bytes.
C6_DigestOfContent ==
    ipc = "hashed" => hash_out = Ok(WholeContent)

\* A 20 KiB file hashed with --no-mmap through short and interrupted reads.
C6_Witness ==
    /\ ipc = "hashed"
    /\ no_mmap
    /\ input.val.strategy = "File"
    /\ target.is_file
    /\ target.data = 20 * 1024
    /\ short_reads = MaxShortReads
    /\ interrupts > 0

\* The same 20 KiB file hashed through the map.
C6_WitnessMmap ==
    /\ ipc = "hashed"
    /\ input.val.strategy = "Mmap"
    /\ target.data = 20 * 1024

(***************************************************************************)
(* Claims about the manifests and their reconciliation, under SpecVerify.  *)
(***************************************************************************)
\* The lines printed about key k, in order.
ReportsOf(k) == SelectSeq(stdout, LAMBDA r : r[1] = k)

ReportedKeys == {stdout[i][1] : i \in 1..Len(stdout)}

\* C7: every key of manifest B the loop has visited has exactly its one
\* outcome: NO EXIST printed once if A lacks the key, MISMATCH printed once
\* if A has it with another digest, nothing if the digests are equal; and
\* nothing is printed about any other key (a key of A alone, a key not yet
\* visited).
C7_OneOutcomePerKey ==
    vpc \in {"match", "exited"} =>
        \A k \in DOMAIN list_check \cup DOMAIN list_input \cup ReportedKeys :
            ReportsOf(k) =
                IF k \notin DOMAIN list_check \/ k \in unmatched THEN <<>>
                ELSE IF k \notin DOMAIN list_input THEN << <<k, "NO EXIST">> >>
                ELSE IF list_input[k] # list_check[k] THEN << <<k, "MISMATCH">> >>
                ELSE <<>>

\* A run that printed one MISMATCH and nothing about a key of A alone.
C7_Witness ==
    /\ vpc = "exited"
    /\ \E k \in DOMAIN list_input : k \notin DOMAIN list_check
    /\ \E k \in DOMAIN list_check : stdout = << <<k, "MISMATCH">> >>

\* A run that printed a NO EXIST and a MISMATCH and skipped nothing else.
C7_WitnessNoExist ==
    /\ vpc = "exited"
    /\ Len(stdout) = 2
    /\ {stdout[1][2], stdout[2][2]} = {"NO EXIST", "MISMATCH"}

\* The manifest a file's lines give when each is split at its first `:`.
RECURSIVE FirstColonLoad(_, _)
FirstColonLoad(lines, m) ==
    IF lines = <<>> THEN m
    ELSE LET ln == Head(lines)
             i == CHOOSE j \in 1..Len(ln) :
                      ln[j] = ":" /\ \A h \in 1..(j - 1) : ln[h] # ":"
         IN  FirstColonLoad(Tail(lines),
                            (SubSeq(ln, 1, i - 1) :> SubSeq(ln, i + 1, Len(ln))) @@ m)

InputLoaded == vpc \in {"load_check", "match", "exited"}

\* C8: every line of manifest A gives the path before its first `:` and, as
\* the digest, all that follows it; and a manifest written from a list whose
\* paths hold no `:` is loaded as that list.
C8_SplitAtFirstColon ==
    /\ (InputLoaded /\ \A i \in 1..Len(file_input.lines) : Contains(file_input.lines[i], ":"))
           => list_input = FirstColonLoad(file_input.lines, EmptyMap)
    /\ (InputLoaded /\ hash_list # EmptyMap
            /\ \A path \in DOMAIN hash_list : ~Contains(path, ":"))
           => list_input = hash_list

(***************************************************************************)
(* Claims about main's hash mode and check mode, checked under SpecMain.   *)
(***************************************************************************)
\* The entry of a walk that hash mode cannot open or cannot read.
EntryFails(e) == open_and_hash(e.t, keyed, no_mmap).kind # "Ok"

HashWalkEnded == ~check /\ root.is_dir /\ mpc \in {"panicked", "exited"}

\* C9: a hash-mode walk of a directory is not aborted by a file that cannot
\* be opened or read: the manifest is written with every other file of the
\* walk, and the exit status is nonzero when a file failed.
C9_FailureTolerated ==
    HashWalkEnded =>
        /\ mpc = "exited"
        /\ output_file.created
        /\ \A i \in 1..Len(root.entries) :
              ~EntryFails(root.entries[i]) =>
                  (root.entries[i].path \o <<":">>
                      \o write_hex_output(root.entries[i].t.digest)) \in output_file.lines
        /\ (\E i \in 1..Len(root.entries) : EntryFails(root.entries[i])) => exit_code # 0

\* What a line of a checkfile says, read without the code's decoder.
HexValue(c) == (CHOOSE i \in 1..16 : HexDigits[i] = c) - 1
LineDigest(ln) == [i \in 1..OUT_LEN |-> 16 * HexValue(ln[2 * i - 1]) + HexValue(ln[2 * i])]
LineIsWellFormed(ln) ==
    LET body == trim_end_newlines(ln) IN
    /\ Len(body) > prefix_len
    /\ Head(body) # BSL
    /\ \A i \in 1..hash_hex_len : body[i] \in LowerHex
    /\ SubSeq(body, hash_hex_len + 1, prefix_len) = <<SP, SP>>
LinePath(ln) == SubSeq(trim_end_newlines(ln), prefix_len + 1, Len(trim_end_newlines(ln)))

\* The line parses, its file opens and hashes, and the digest is the line's.
ExpectedSuccess(ln) ==
    /\ LineIsWellFormed(ln)
    /\ ~Contains(LinePath(ln), NUL)
    /\ ~Contains(LinePath(ln), FFFD)
    /\ ~(windows /\ Contains(LinePath(ln), BSL))
    /\ open_and_hash(target_of(LinePath(ln)), FALSE, no_mmap) = Ok(LineDigest(ln))

\* The lines of the checkfiles before the k+1-th of the walk.
RECURSIVE LinesBefore(_)
LinesBefore(k) == IF k = 0 THEN <<>> ELSE LinesBefore(k - 1) \o root.entries[k].lines

LinesRead ==
    IF mpc = "lines" THEN LinesBefore(walk_i - 1) \o SubSeq(Entry.lines, 1, line_i - 1)
    ELSE LinesBefore(walk_i - 1)

\* C10: in check mode the lines of a checkfile that can be read are checked
\* one by one to its end, none stopping the run; a line succeeds exactly when
\* it parses, its file hashes and the digest is the one of the line; and the
\* flag is set exactly when a line checked so far did not succeed.
C10_EveryLineChecked ==
    check =>
        /\ mpc = "panicked" => Entry.t.fault = "read"
        /\ mpc \in {"walk", "lines"} =>
              [j \in 1..Len(line_results) |-> line_results[j].ln] = LinesRead
        /\ \A j \in 1..Len(line_results) :
              line_results[j].success = ExpectedSuccess(line_results[j].ln)
        /\ some_file_failed = (\E j \in 1..Len(line_results) : ~line_results[j].success)

(***************************************************************************)
(* The exit status, checked under SpecVerify.                              *)
(***************************************************************************)
\* Every key of manifest B is in manifest A with the same digest.
AllVerified ==
    \A k \in DOMAIN list_check : k \in DOMAIN list_input /\ list_input[k] = list_check[k]

\* C11: a verify run that reaches its exit has status zero exactly when every
\* file of manifest B verified, and a nonzero status when one did not.
C11_ExitStatus ==
    vpc = "exited" => (exit_code = 0 <=> AllVerified)

(***************************************************************************)
(* The key of keyed mode, checked under SpecMain.                          *)
(***************************************************************************)
\* C12: in keyed mode with other than KEY_LEN bytes on standard input the run
\* fails in Args::parse: the status is 1, no entry of the walk has been
\* opened or hashed and the output file has not been created.
C12_KeyLengthChecked ==
    (keyed /\ key_supplied # KEY_LEN /\ mpc # "parse_args") =>
        /\ mpc = "failed"
        /\ exit_code = 1
        /\ walk_i = 1
        /\ list = EmptyMap
        /\ ~output_file.created

\* A run with KEY_LEN + 1 bytes on standard input that failed before the
\* first file of its walk.
C12_Witness ==
    /\ keyed
    /\ key_supplied = KEY_LEN + 1
    /\ mpc = "failed"
    /\ root.entries # <<>>
    /\ output_ok

\* A run with fewer than KEY_LEN bytes that failed in the same way.
C12_WitnessShort ==
    /\ keyed
    /\ key_supplied = KEY_LEN - 1
    /\ mpc = "failed"
    /\ root.entries # <<>>

(***************************************************************************)
(* The hex digits of the digest, checked under SpecCodec.                  *)
(***************************************************************************)
HashRegionIsHex ==
    /\ Len(LineBody) >= hash_hex_len
    /\ \A i \in 1..hash_hex_len : LineBody[i] \in LowerHex

\* C13: for a line whose first 64 characters are lowercase hex digits the
\* decoding of the digest leaves the range of a byte nowhere, and the i-th
\* byte of the expected digest of an accepted line is 16 times the value of
\* the i-th pair's first digit plus the value of its second.
C13_HexDecoding ==
    (Decoded /\ HashRegionIsHex) =>
        /\ parsed.kind # "Panic"
        /\ parsed.kind = "Ok" => parsed.val.expected_hash = LineDigest(LineBody)

(***************************************************************************)
(* The read loop of copy_wide, checked under SpecInputFair.                *)
(***************************************************************************)
\* The number of bytes the hasher was fed.
RECURSIVE HasherBytes(_)
HasherBytes(h) == IF h = <<>> THEN 0 ELSE (Head(h)[2] - Head(h)[1]) + HasherBytes(Tail(h))

ReadLoopEnded == ipc \in {"hashed", "hash_failed"}
Buffered == input.kind = "Ok" /\ input.val.strategy \in {"File", "Stdin"}

\* An input the reads of the model reach the end of.
FiniteInput == target.dash \/ ~target.len.above

\* C14: an interrupted read leaves the loop running and the hasher, the total
\* and the position as they were; the loop returns Ok only at the end of the
\* input, with the total the number of bytes fed to the hasher, and Err only
\* for a read error that is not an interruption; and on a finite input the
\* loop ends.
C14_InterruptedRetried ==
    /\ [][interrupts' # interrupts =>
            /\ ipc' = ipc
            /\ hasher' = hasher
            /\ total' = total
            /\ rpos' = rpos
            /\ hash_out' = hash_out]_vars
    /\ []((Buffered /\ ipc = "hashed") =>
            /\ read_max(target, rpos) = 0
            /\ hash_out.kind = "Ok"
            /\ total = HasherBytes(hasher))
    /\ []((Buffered /\ ipc = "hash_failed") =>
            /\ target.fault = "read"
            /\ hash_out = Err("read"))
    /\ ((Reading /\ FiniteInput) ~> ReadLoopEnded)

\* Standard input of more than two buffers read to its end through
\* MaxInterrupts interrupted reads.
C14_Witness ==
    /\ ipc = "hashed"
    /\ input.val.strategy = "Stdin"
    /\ interrupts = MaxInterrupts
    /\ total = 2 * BUFFER_LEN + 1

\* A read error returned after an interrupted read was retried.
C14_WitnessError ==
    /\ ipc = "hash_failed"
    /\ input.val.strategy = "File"
    /\ interrupts > 0
    /\ total > 0

=============================================================================
